---- MODULE Spec2Model ----
(***************************************************************************)
(* Model of server/core/nats.go of the NATS account server: the lifecycle  *)
(* of the connection used for claim notifications (connectToNATS and its   *)
(* retry goroutine, the connection callbacks), the notification publishers *)
(* and the notification handlers.                                          *)
(*                                                                         *)
(* Execution contexts: the main context (Start, which calls connectToNATS  *)
(* with the server lock held), the retry goroutines spawned by a failed    *)
(* connect, the callers of Stop(), the contexts of the NATS client that    *)
(* invoke the callbacks and the message handlers, and the HTTP side that   *)
(* calls the publishers.                                                   *)
(***************************************************************************)
EXTENDS Integers, Sequences, FiniteSets, TLC

\* ---------------------------------------------------------------- bounds
\* Connection attempts that may fail (each failure spawns one retry goroutine).
MaxFailures == 2
\* Invocations of the closed callback by the NATS client.
NumClosed == 2

\* ------------------------------------------------------------- constants
Nil == 0
NoOne == -1
Main == 0
\* config.NATS.ReconnectWait, in milliseconds; the values a configuration may hold.
ReconnectWaits == {1000, 2000}
\* len(config.NATS.Servers)
ServerCounts == {0, 1}

\* Dispatch contexts of the NATS client that run message handlers concurrently.
NumHandlers == 2
\* The clock stops advancing at MaxTime.
MaxTime == 1

\* time.Hour, in milliseconds (line 171 and line 208).
Hour == 3600000
NoExpiry == -1
Http == -2

Goroutines == 1..MaxFailures
Handlers == 1..NumHandlers
Procs == {Main} \cup Goroutines
ClosedCtx == 1..NumClosed

VARIABLES
    servers,        \* len(server.config.NATS.Servers)
    primary,        \* server.primary != ""
    reconnectWait,  \* server.config.NATS.ReconnectWait
    running,        \* server.running
    lock,           \* holder of the server mutex (server.Lock / server.Unlock)
    nats,           \* server.nats: Nil or the id of a connection
    natsTimer,      \* server.natsTimer: Nil or the id of a timer
    pc,             \* position of the main context and of each retry goroutine
    ret,            \* last value returned by connectToNATS to each caller
    gTimer,         \* the timer a retry goroutine receives from
    timer,          \* the timers created by time.NewTimer
    connState,      \* the connection made by nats.Connect: "none", "open", "closed"
    subs,           \* subscriptions registered on the connection
    attempts,       \* calls of nats.Connect
    failures,       \* calls of nats.Connect that returned an error
    stopped,        \* Stop() has cleared running
    stopPending,    \* Stop() cleared running while a retry goroutine was waiting
    taskpc,         \* the stop-and-exit goroutine started by each closed callback
    closedpc,       \* each invocation of the closed callback
    exited,         \* os.Exit was called
    exitStatus,     \* its argument
    now,            \* the clock read by time.Now(), in milliseconds
    store,          \* server.jwtStore: identifier -> saved payload
    validUntil,     \* server.validUntil: identifier -> expiry
    cacheLock,      \* holder of server.cacheLock
    hnd,            \* the message handler run by each dispatch context of the client
    wire,           \* the last message published by this server
    pub,            \* the publisher call in progress on the HTTP side
    unsync,         \* server.nats was read or written without the server lock
    logged          \* the last line written by a connection callback that only logs

lifeVars == <<servers, primary, reconnectWait, running, lock, nats, natsTimer, pc, ret,
              gTimer, timer, connState, subs, attempts, failures, stopped, stopPending,
              taskpc, closedpc, exited, exitStatus>>

\* The notification side: left alone by every lifecycle action.
handlerVars == <<now, store, validUntil, cacheLock, hnd>>
pubVars == <<wire, pub, unsync>>
noteVars == <<handlerVars, pubVars, logged>>

vars == <<lifeVars, noteVars>>


\* ----------------------------------------------------- subjects and claims
\* Subjects are sequences of the tokens that the dots separate.
accountNotificationFormat == <<"$SYS", "ACCOUNT", "%s", "CLAIMS", "UPDATE">>
activationNotificationFormat == <<"$SYS", "ACCOUNT", "%s", "CLAIMS", "ACTIVATE", "%s">>

\* fmt.Sprintf(format, args...): each %s takes the next argument.
RECURSIVE Sprintf(_, _)
Sprintf(format, args) ==
    IF format = <<>> THEN <<>>
    ELSE IF Head(format) = "%s" /\ args # <<>>
         THEN <<Head(args)>> \o Sprintf(Tail(format), Tail(args))
         ELSE <<Head(format)>> \o Sprintf(Tail(format), args)

\* strings.Replace(format, "%s", "*", -1)
ReplaceAll(format) == [i \in 1..Len(format) |-> IF format[i] = "%s" THEN "*" ELSE format[i]]

\* The subject of a subscription, lines 124 and 127.
SubscribeSubject(kind) ==
    IF kind = "account" THEN ReplaceAll(accountNotificationFormat)
    ELSE ReplaceAll(activationNotificationFormat)

\* Subject matching of the NATS server: "*" matches exactly one token.
SubjectMatches(subject, pattern) ==
    /\ Len(subject) = Len(pattern)
    /\ \A i \in 1..Len(pattern) : pattern[i] = "*" \/ pattern[i] = subject[i]

\* Identifiers: account public keys and the hash of an activation.
AccountKeys == {"K1", "K2"}
Keys == {"K1", "H1"}
\* Payloads (encoded claims) by what the codec makes of them.
Payloads == {"A1", "A1b", "V1", "VE", "empty", "bad"}

\* jwt.DecodeAccountClaims: A1 and A1b are two account claims of subject K1,
\* "empty" decodes to no claim without an error, the rest fail to decode.
DecodeAccountClaims(p) ==
    IF p \in {"A1", "A1b"} THEN [err |-> FALSE, claim |-> TRUE, subject |-> "K1"]
    ELSE IF p = "empty" THEN [err |-> FALSE, claim |-> FALSE, subject |-> "none"]
    ELSE [err |-> TRUE, claim |-> FALSE, subject |-> "none"]

\* jwt.DecodeActivationClaims and claim.HashID(): V1 is an activation of hash H1,
\* VE an activation whose hash cannot be computed.
DecodeActivationClaims(p) ==
    IF p = "V1" THEN [err |-> FALSE, claim |-> TRUE, hash |-> "H1", hashErr |-> FALSE]
    ELSE IF p = "VE" THEN [err |-> FALSE, claim |-> TRUE, hash |-> "none", hashErr |-> TRUE]
    ELSE IF p = "empty" THEN [err |-> FALSE, claim |-> FALSE, hash |-> "none", hashErr |-> FALSE]
    ELSE [err |-> TRUE, claim |-> FALSE, hash |-> "none", hashErr |-> FALSE]

NoMsg == [subject |-> <<>>, data |-> "none"]
\* Messages that other servers publish on the two subjects.
ForeignMsgs ==
    {[subject |-> Sprintf(accountNotificationFormat, <<"K1">>), data |-> d] :
        d \in {"A1b", "bad", "empty"}}
    \cup {[subject |-> Sprintf(activationNotificationFormat, <<"K1", "H1">>), data |-> d] :
            d \in {"VE", "bad", "empty"}}

HIdle == [pc |-> "idle", kind |-> "none", data |-> "none", key |-> "none", result |-> "none",
          at |-> -1]
PubIdle == [pc |-> "idle", op |-> "none", msg |-> NoMsg, claimKey |-> "none", ret |-> "none",
            result |-> "none", conn |-> Nil, attempts |-> 0]

NoTimer == [state |-> "none", dur |-> 0]

Init ==
    /\ servers \in ServerCounts
    /\ primary \in BOOLEAN
    /\ reconnectWait \in ReconnectWaits
    /\ running = FALSE
    /\ lock = NoOne
    /\ nats = Nil
    /\ natsTimer = Nil
    /\ pc = [p \in Procs |-> IF p = Main THEN "Start" ELSE "none"]
    /\ ret = [p \in Procs |-> "none"]
    /\ gTimer = [g \in Goroutines |-> Nil]
    /\ timer = [t \in Goroutines |-> NoTimer]
    /\ connState = "none"
    /\ subs = {}
    /\ attempts = 0
    /\ failures = 0
    /\ stopped = FALSE
    /\ stopPending = FALSE
    /\ taskpc = [c \in ClosedCtx |-> "none"]
    /\ closedpc = [c \in ClosedCtx |-> "idle"]
    /\ exited = FALSE
    /\ exitStatus = 0
    /\ now = 0
    /\ store = [k \in Keys |-> "none"]
    /\ validUntil = [k \in Keys |-> NoExpiry]
    /\ cacheLock = NoOne
    /\ hnd = [h \in Handlers |-> HIdle]
    /\ wire = NoMsg
    /\ pub = PubIdle
    /\ unsync = FALSE
    /\ logged = "none"

\* ------------------------------------------------------ server lifecycle
\* An access to server.nats by context ctx: unsynchronized when ctx does not hold
\* the server lock.
Unsync(ctx) == unsync \/ lock # ctx

\* checkRunning(): reads running with the server lock held.
CanLock == lock = NoOne /\ ~exited

checkRunning == running

\* Start(): takes the lock, marks the server running and calls connectToNATS.
Start ==
    /\ pc[Main] = "Start"
    /\ CanLock
    /\ lock' = Main
    /\ running' = TRUE
    /\ pc' = [pc EXCEPT ![Main] = "connect"]
    /\ UNCHANGED <<servers, primary, reconnectWait, nats, natsTimer, ret, gTimer, timer,
                   connState, subs, attempts, failures, stopped, stopPending, taskpc,
                   closedpc, exited, exitStatus,
                   noteVars>>

\* connectToNATS, lines 66-68: "already stopped".
AlreadyStoppedNoCheck == FALSE
AlreadyStopped == ~running

\* connectToNATS, lines 72-75: NATS is not configured.
NotConfiguredNoCheck == FALSE
NotConfigured == servers = 0

\* connectToNATS returns nil on every path.
ConnectReturn == "nil"

\* The duration of the retry timer, line 109.
RetryDurationInSeconds == reconnectWait * 1000
RetryDuration == reconnectWait

\* connectToNATS up to the result of nats.Connect; the lock is held by the caller.
\* Early return when stopped or not configured.
ConnectSkip(p) ==
    /\ pc[p] = "connect"
    /\ ~exited
    /\ AlreadyStopped \/ NotConfigured
    /\ pc' = [pc EXCEPT ![p] = "Unlock"]
    /\ ret' = [ret EXCEPT ![p] = ConnectReturn]
    /\ UNCHANGED <<servers, primary, reconnectWait, running, lock, nats, natsTimer,
                   gTimer, timer, connState, subs, attempts, failures, stopped,
                   stopPending, taskpc, closedpc, exited, exitStatus,
                   noteVars>>

\* Line 123: if server.primary != "".
IsPrimaryAlways == TRUE
IsPrimary == primary

\* The order of lines 123-132 after nats.Connect succeeded: the two subscriptions when
\* the server is primary, then the assignment of server.nats, then the return.
ConnectStepStoresFirst(at) ==
    CASE at = "connected" -> "store"
      [] at = "store" -> IF IsPrimary THEN "sub1" ELSE "Unlock"
      [] at = "sub1" -> "sub2"
      [] at = "sub2" -> "Unlock"

ConnectStepConnectsAgain(at) ==
    CASE at = "connected" -> IF IsPrimary THEN "sub1" ELSE "store"
      [] at = "sub1" -> "sub2"
      [] at = "sub2" -> "store"
      [] at = "store" -> "connect"

ConnectStep(at) ==
    CASE at = "connected" -> IF IsPrimary THEN "sub1" ELSE "store"
      [] at = "sub1" -> "sub2"
      [] at = "sub2" -> "store"
      [] at = "store" -> "Unlock"

\* nats.Connect succeeded: nc is the new connection.
ConnectOk(p) ==
    /\ pc[p] = "connect"
    /\ ~exited
    /\ ~AlreadyStopped /\ ~NotConfigured
    /\ attempts' = attempts + 1
    /\ connState' = "open"
    /\ pc' = [pc EXCEPT ![p] = ConnectStep("connected")]
    /\ UNCHANGED <<servers, primary, reconnectWait, running, lock, nats, natsTimer, ret,
                   gTimer, timer, subs, failures, stopped, stopPending, taskpc,
                   closedpc, exited, exitStatus,
                   noteVars>>

\* nats.Connect failed, lines 105-121: a timer and a goroutine for the retry.
ConnectFail(p) ==
    /\ pc[p] = "connect"
    /\ ~exited
    /\ ~AlreadyStopped /\ ~NotConfigured
    /\ failures < MaxFailures
    /\ attempts' = attempts + 1
    /\ failures' = failures + 1
    /\ timer' = [timer EXCEPT ![failures + 1] = [state |-> "pending", dur |-> RetryDuration]]
    /\ natsTimer' = failures + 1
    /\ pc' = [pc EXCEPT ![p] = "Unlock", ![failures + 1] = "spawned"]
    /\ ret' = [ret EXCEPT ![p] = ConnectReturn]
    /\ UNCHANGED <<servers, primary, reconnectWait, running, lock, nats, gTimer,
                   connState, subs, stopped, stopPending, taskpc, closedpc, exited,
                   exitStatus,
                   noteVars>>

\* Lines 124-125: nc.Subscribe for account updates.
SubscribeAccount(p) ==
    /\ pc[p] = "sub1"
    /\ ~exited
    /\ subs' = subs \cup {"account"}
    /\ pc' = [pc EXCEPT ![p] = ConnectStep("sub1")]
    /\ UNCHANGED <<servers, primary, reconnectWait, running, lock, nats, natsTimer, ret,
                   gTimer, timer, connState, attempts, failures, stopped, stopPending,
                   taskpc, closedpc, exited, exitStatus,
                   noteVars>>

\* Lines 127-128: nc.Subscribe for activations.
SubscribeActivation(p) ==
    /\ pc[p] = "sub2"
    /\ ~exited
    /\ subs' = subs \cup {"activation"}
    /\ pc' = [pc EXCEPT ![p] = ConnectStep("sub2")]
    /\ UNCHANGED <<servers, primary, reconnectWait, running, lock, nats, natsTimer, ret,
                   gTimer, timer, connState, attempts, failures, stopped, stopPending,
                   taskpc, closedpc, exited, exitStatus,
                   noteVars>>

\* Lines 131-132: server.nats = nc; return nil.
StoreConn(p) ==
    /\ pc[p] = "store"
    /\ ~exited
    /\ nats' = 1
    /\ unsync' = Unsync(p)
    /\ pc' = [pc EXCEPT ![p] = ConnectStep("store")]
    /\ ret' = [ret EXCEPT ![p] = ConnectReturn]
    /\ UNCHANGED <<servers, primary, reconnectWait, running, lock, natsTimer, gTimer,
                   timer, connState, subs, attempts, failures, stopped, stopPending,
                   taskpc, closedpc, exited, exitStatus,
                   handlerVars, wire, pub, logged>>

\* The caller of connectToNATS releases the lock.
Unlock(p) ==
    /\ pc[p] = "Unlock"
    /\ ~exited
    /\ lock = p
    /\ lock' = NoOne
    /\ pc' = [pc EXCEPT ![p] = "done"]
    /\ UNCHANGED <<servers, primary, reconnectWait, running, nats, natsTimer, ret,
                   gTimer, timer, connState, subs, attempts, failures, stopped,
                   stopPending, taskpc, closedpc, exited, exitStatus,
                   noteVars>>

\* --------------------------------------------------- the retry goroutine
\* The timer expires: its channel becomes readable.
TimerFire(t) ==
    /\ timer[t].state = "pending"
    /\ ~exited
    /\ timer' = [timer EXCEPT ![t].state = "fired"]
    /\ UNCHANGED <<servers, primary, reconnectWait, running, lock, nats, natsTimer, pc,
                   ret, gTimer, connState, subs, attempts, failures, stopped,
                   stopPending, taskpc, closedpc, exited, exitStatus,
                   noteVars>>

\* Line 111: the goroutine evaluates server.natsTimer.C (without the lock).
RetryEval(g) ==
    /\ pc[g] = "spawned"
    /\ ~exited
    /\ natsTimer # Nil
    /\ gTimer' = [gTimer EXCEPT ![g] = natsTimer]
    /\ pc' = [pc EXCEPT ![g] = "recv"]
    /\ UNCHANGED <<servers, primary, reconnectWait, running, lock, nats, natsTimer, ret,
                   timer, connState, subs, attempts, failures, stopped, stopPending,
                   taskpc, closedpc, exited, exitStatus,
                   noteVars>>

\* Line 111: the receive returns once the timer has fired.
RetryRecv(g) ==
    /\ pc[g] = "recv"
    /\ ~exited
    /\ timer[gTimer[g]].state = "fired"
    /\ timer' = [timer EXCEPT ![gTimer[g]].state = "received"]
    /\ pc' = [pc EXCEPT ![g] = "clear"]
    /\ UNCHANGED <<servers, primary, reconnectWait, running, lock, nats, natsTimer, ret,
                   gTimer, connState, subs, attempts, failures, stopped, stopPending,
                   taskpc, closedpc, exited, exitStatus,
                   noteVars>>

\* Line 113: the value assigned to server.natsTimer.
TimerKept == natsTimer
TimerCleared == Nil

\* Line 113: server.natsTimer = nil (without the lock).
RetryClear(g) ==
    /\ pc[g] = "clear"
    /\ ~exited
    /\ natsTimer' = TimerCleared
    /\ pc' = [pc EXCEPT ![g] = "check"]
    /\ UNCHANGED <<servers, primary, reconnectWait, running, lock, nats, ret, gTimer,
                   timer, connState, subs, attempts, failures, stopped, stopPending,
                   taskpc, closedpc, exited, exitStatus,
                   noteVars>>

\* Lines 114-118: the goroutine reconnects if the server is still running.
RetryGivesUp(r) == "done"
RetryAfterCheck(r) == IF r THEN "Lock" ELSE "done"

\* Line 114: if server.checkRunning().
RetryCheck(g) ==
    /\ pc[g] = "check"
    /\ CanLock
    /\ pc' = [pc EXCEPT ![g] = RetryAfterCheck(checkRunning)]
    /\ UNCHANGED <<servers, primary, reconnectWait, running, lock, nats, natsTimer, ret,
                   gTimer, timer, connState, subs, attempts, failures, stopped,
                   stopPending, taskpc, closedpc, exited, exitStatus,
                   noteVars>>

\* Line 115: server.Lock(), then connectToNATS.
RetryLock(g) ==
    /\ pc[g] = "Lock"
    /\ CanLock
    /\ lock' = g
    /\ pc' = [pc EXCEPT ![g] = "connect"]
    /\ UNCHANGED <<servers, primary, reconnectWait, running, nats, natsTimer, ret,
                   gTimer, timer, connState, subs, attempts, failures, stopped,
                   stopPending, taskpc, closedpc, exited, exitStatus,
                   noteVars>>

\* ------------------------------------------------------------------ Stop
\* Stop(): with the lock held, clears running and closes the connection if any.
RetryPending == \E g \in Goroutines : pc[g] \in {"spawned", "recv", "clear", "check", "Lock"}

StopBody ==
    /\ running' = FALSE
    /\ stopped' = (stopped \/ running)
    /\ stopPending' = (stopPending \/ (running /\ RetryPending))
    /\ connState' = IF running /\ nats # Nil THEN "closed" ELSE connState

\* Stop() called by the application.
Stop ==
    /\ CanLock
    /\ pc[Main] # "Start"
    /\ StopBody
    /\ UNCHANGED <<servers, primary, reconnectWait, lock, nats, natsTimer, pc, ret,
                   gTimer, timer, subs, attempts, failures, taskpc, closedpc, exited,
                   exitStatus,
                   noteVars>>

\* ------------------------------------------------------- closed callback
\* natsClosed, line 50: the branch taken on the value of checkRunning().
ClosedStartsTask(r) == r

\* Lines 52-55: the goroutine calls server.Stop() first, os.Exit after it.
TaskEntryExit == "Exit"
TaskEntry == "Stop"

\* natsClosed: the NATS client reports the connection as closed.
natsClosed(c) ==
    /\ closedpc[c] = "idle"
    /\ connState # "none"
    /\ CanLock
    /\ closedpc' = [closedpc EXCEPT ![c] = "returned"]
    /\ taskpc' = [taskpc EXCEPT ![c] = IF ClosedStartsTask(checkRunning) THEN TaskEntry ELSE "none"]
    /\ connState' = "closed"
    /\ UNCHANGED <<servers, primary, reconnectWait, running, lock, nats, natsTimer, pc,
                   ret, gTimer, timer, subs, attempts, failures, stopped, stopPending,
                   exited, exitStatus,
                   noteVars>>

\* Line 53: server.Stop() in the goroutine started by natsClosed.
TaskStop(c) ==
    /\ taskpc[c] = "Stop"
    /\ CanLock
    /\ StopBody
    /\ taskpc' = [taskpc EXCEPT ![c] = "Exit"]
    /\ UNCHANGED <<servers, primary, reconnectWait, lock, nats, natsTimer, pc, ret,
                   gTimer, timer, subs, attempts, failures, closedpc, exited, exitStatus,
                   noteVars>>

\* Line 54: os.Exit(-1); the process status is the low byte of the code.
ExitCode == -1
ExitStatus(code) == code % 256

TaskExit(c) ==
    /\ taskpc[c] = "Exit"
    /\ ~exited
    /\ exited' = TRUE
    /\ exitStatus' = ExitStatus(ExitCode)
    /\ taskpc' = [taskpc EXCEPT ![c] = "exited"]
    /\ UNCHANGED <<servers, primary, reconnectWait, running, lock, nats, natsTimer, pc,
                   ret, gTimer, timer, connState, subs, attempts, failures, stopped,
                   stopPending, closedpc,
                   noteVars>>

\* ---------------------------------------------------- logging callbacks
\* The NATS client invokes the callbacks of a connection it has made, from its own
\* goroutines, in any order.
\* natsError, lines 34-36.
natsError ==
    /\ connState # "none"
    /\ ~exited
    /\ logged' = "nats error"
    /\ UNCHANGED <<lifeVars, handlerVars, pubVars>>

\* natsDisconnected, lines 38-43: no line when the server is not running.
natsDisconnectedStops ==
    /\ connState # "none"
    /\ CanLock
    /\ logged' = "nats disconnected"
    /\ StopBody
    /\ UNCHANGED <<servers, primary, reconnectWait, lock, nats, natsTimer, pc, ret,
                   gTimer, timer, subs, attempts, failures, taskpc, closedpc, exited,
                   exitStatus,
                   handlerVars, pubVars>>

natsDisconnected ==
    /\ connState # "none"
    /\ CanLock
    /\ logged' = IF checkRunning THEN "nats disconnected" ELSE logged
    /\ UNCHANGED <<lifeVars, handlerVars, pubVars>>

\* natsReconnected, lines 45-47.
natsReconnected ==
    /\ connState # "none"
    /\ ~exited
    /\ logged' = "nats reconnected"
    /\ UNCHANGED <<lifeVars, handlerVars, pubVars>>

\* natsDiscoveredServers, lines 59-62: two lines, the last one stays.
natsDiscoveredServers ==
    /\ connState # "none"
    /\ ~exited
    /\ logged' = "known servers"
    /\ UNCHANGED <<lifeVars, handlerVars, pubVars>>

\* ------------------------------------------------------------ publishers
\* getNatsConnection: reads server.nats with the lock held.
getNatsConnection ==
    /\ pub.pc = "idle"
    /\ pc[Main] # "Start"
    /\ CanLock
    /\ pub' = [PubIdle EXCEPT !.pc = "returned", !.op = "get", !.conn = nats]
    /\ UNCHANGED <<lifeVars, logged, handlerVars, wire, unsync>>

\* The subject sendAccountNotification publishes on, line 150.
AccountSubjectUnformatted(pubKey) == accountNotificationFormat
AccountSubject(pubKey) == Sprintf(accountNotificationFormat, <<pubKey>>)
\* The subject sendActivationNotification publishes on, line 181.
ActivationSubject(account, hash) == Sprintf(activationNotificationFormat, <<account, hash>>)

\* Lines 145 and 176: if server.nats == nil.
HandleNeverNil == FALSE
HandleIsNil == nats = Nil

\* Lines 151 and 182: the publishers return what Publish returned.
PublishReturnNil(err) == "nil"
PublishReturn(err) == err

\* sendAccountNotification, lines 143-148: the nil check on server.nats.
sendAccountNotification(pubKey, theJWT) ==
    /\ pub.pc = "idle"
    /\ pc[Main] # "Start"
    /\ ~exited
    /\ unsync' = Unsync(Http)
    /\ pub' = IF HandleIsNil
              THEN [PubIdle EXCEPT !.pc = "returned", !.op = "account", !.claimKey = pubKey,
                                   !.msg = [subject |-> <<>>, data |-> theJWT], !.ret = "nil"]
              ELSE [PubIdle EXCEPT !.pc = "publish", !.op = "account", !.claimKey = pubKey,
                                   !.msg = [subject |-> AccountSubject(pubKey), data |-> theJWT]]
    /\ UNCHANGED <<lifeVars, logged, handlerVars, wire>>

\* sendActivationNotification, lines 176-179: the nil check on server.nats.
sendActivationNotification(hash, account, theJWT) ==
    /\ pub.pc = "idle"
    /\ pc[Main] # "Start"
    /\ ~exited
    /\ unsync' = Unsync(Http)
    /\ pub' = IF HandleIsNil
              THEN [PubIdle EXCEPT !.pc = "returned", !.op = "activation", !.claimKey = hash,
                                   !.msg = [subject |-> <<>>, data |-> theJWT], !.ret = "nil"]
              ELSE [PubIdle EXCEPT !.pc = "publish", !.op = "activation", !.claimKey = hash,
                                   !.msg = [subject |-> ActivationSubject(account, hash),
                                            data |-> theJWT]]
    /\ UNCHANGED <<lifeVars, logged, handlerVars, wire>>

\* Lines 151 and 182: return server.nats.Publish(subject, theJWT); the publish succeeds.
PublishOk ==
    /\ pub.pc = "publish"
    /\ ~exited
    /\ connState = "open"
    /\ unsync' = Unsync(Http)
    /\ wire' = pub.msg
    /\ pub' = [pub EXCEPT !.pc = "returned", !.result = "nil", !.ret = PublishReturn("nil"),
                          !.attempts = @ + 1]
    /\ UNCHANGED <<lifeVars, logged, handlerVars>>

\* Lines 151 and 182: the publish fails (closed connection, or an error of the client).
PublishErr ==
    /\ pub.pc = "publish"
    /\ ~exited
    /\ unsync' = Unsync(Http)
    /\ pub' = [pub EXCEPT !.pc = "returned", !.result = "err", !.ret = PublishReturn("err"),
                          !.attempts = @ + 1]
    /\ UNCHANGED <<lifeVars, logged, handlerVars, wire>>

\* The caller of a publisher goes on.
PubDone ==
    /\ pub.pc = "returned"
    /\ ~exited
    /\ pub' = PubIdle
    /\ UNCHANGED <<lifeVars, logged, handlerVars, wire, unsync>>

\* -------------------------------------------------------------- handlers
\* The NATS client hands a message to a handler only on an open connection
\* with a subscription whose subject matches.
Deliverable(kind, m) ==
    /\ connState = "open"
    /\ kind \in subs
    /\ m # NoMsg
    /\ SubjectMatches(m.subject, SubscribeSubject(kind))

\* Line 159: if err != nil || claim == nil.
DropAccountErrOnly(d) == d.err
DropAccount(d) == d.err \/ ~d.claim

\* Lines 190 and 195: if err != nil || claim == nil, and the error of HashID.
DropActivation(d) == d.err \/ ~d.claim \/ d.hashErr

\* The order of the statements of a handler after a claim was decoded, lines 163-173
\* and 200-210: the store write, the return when it failed, then the cache lock, the
\* write of the expiry, the unlock and the return.
HandlerStepLocksFirst(at) ==
    CASE at = "decoded" -> "lock"
      [] at = "locked" -> "save"
      [] at = "saved" -> "touch"
      [] at = "savefail" -> "done"
      [] at = "touched" -> "unlock"
      [] at = "unlocked" -> "done"

HandlerStepIgnoresSaveError(at) ==
    CASE at = "decoded" -> "save"
      [] at = "saved" -> "lock"
      [] at = "savefail" -> "lock"
      [] at = "locked" -> "touch"
      [] at = "touched" -> "unlock"
      [] at = "unlocked" -> "done"

HandlerStep(at) ==
    CASE at = "decoded" -> "save"
      [] at = "saved" -> "lock"
      [] at = "savefail" -> "done"
      [] at = "locked" -> "touch"
      [] at = "touched" -> "unlock"
      [] at = "unlocked" -> "done"

\* handleAccountNotification, lines 155-163: decode, drop when it fails.
handleAccountNotification(h, m) ==
    /\ hnd[h].pc = "idle"
    /\ ~exited
    /\ Deliverable("account", m)
    /\ LET d == DecodeAccountClaims(m.data)
       IN hnd' = [hnd EXCEPT ![h] =
                    IF DropAccount(d)
                    THEN [HIdle EXCEPT !.pc = "done", !.kind = "account", !.data = m.data,
                                       !.result = "dropped"]
                    ELSE [HIdle EXCEPT !.pc = HandlerStep("decoded"), !.kind = "account", !.data = m.data,
                                       !.key = d.subject]]
    /\ UNCHANGED <<lifeVars, now, store, validUntil, cacheLock, pubVars, logged>>

\* handleActivationNotification, lines 186-198: decode and hash, drop when either fails.
handleActivationNotification(h, m) ==
    /\ hnd[h].pc = "idle"
    /\ ~exited
    /\ Deliverable("activation", m)
    /\ LET d == DecodeActivationClaims(m.data)
       IN hnd' = [hnd EXCEPT ![h] =
                    IF DropActivation(d)
                    THEN [HIdle EXCEPT !.pc = "done", !.kind = "activation", !.data = m.data,
                                       !.result = "dropped"]
                    ELSE [HIdle EXCEPT !.pc = HandlerStep("decoded"), !.kind = "activation", !.data = m.data,
                                       !.key = d.hash]]
    /\ UNCHANGED <<lifeVars, now, store, validUntil, cacheLock, pubVars, logged>>

\* Lines 164 and 200: server.jwtStore.Save(key, theJWT) succeeds.
SaveOk(h) ==
    /\ hnd[h].pc = "save"
    /\ ~exited
    /\ store' = [store EXCEPT ![hnd[h].key] = hnd[h].data]
    /\ hnd' = [hnd EXCEPT ![h].pc = HandlerStep("saved")]
    /\ UNCHANGED <<lifeVars, now, validUntil, cacheLock, pubVars, logged>>

\* Lines 165-167 and 201-204: the store write fails and the handler returns.
SaveFail(h) ==
    /\ hnd[h].pc = "save"
    /\ ~exited
    /\ hnd' = [hnd EXCEPT ![h].pc = HandlerStep("savefail"), ![h].result = "savefail"]
    /\ UNCHANGED <<lifeVars, now, store, validUntil, cacheLock, pubVars, logged>>

\* Lines 170 and 207: server.cacheLock.Lock().
CacheLock(h) ==
    /\ hnd[h].pc = "lock"
    /\ ~exited
    /\ cacheLock = NoOne
    /\ cacheLock' = h
    /\ hnd' = [hnd EXCEPT ![h].pc = HandlerStep("locked")]
    /\ UNCHANGED <<lifeVars, now, store, validUntil, pubVars, logged>>

\* The expiry written for the identifier, lines 171 and 208.
Expiry(t) == t + Hour

\* The map assignment of lines 171 and 208 replaces the entry.
UpsertKeepOld(old, new) == IF old = NoExpiry THEN new ELSE old
Upsert(old, new) == new

\* The key of the entry written: pubKey at line 171, hash at line 208, the identifier
\* the payload was saved under.
CacheKeyOfAccount(h) == "K1"
CacheKey(h) == hnd[h].key

\* Lines 171 and 208: server.validUntil[key] = time.Now().Add(time.Hour).
Touch(h) ==
    /\ hnd[h].pc = "touch"
    /\ ~exited
    /\ validUntil' = [validUntil EXCEPT ![CacheKey(h)] = Upsert(@, Expiry(now))]
    /\ hnd' = [hnd EXCEPT ![h].pc = HandlerStep("touched"), ![h].at = now]
    /\ UNCHANGED <<lifeVars, now, store, cacheLock, pubVars, logged>>

\* Lines 172 and 209: server.cacheLock.Unlock(), and the handler returns.
CacheUnlock(h) ==
    /\ hnd[h].pc = "unlock"
    /\ ~exited
    /\ cacheLock' = NoOne
    /\ hnd' = [hnd EXCEPT ![h].pc = HandlerStep("unlocked"), ![h].result = "ok"]
    /\ UNCHANGED <<lifeVars, now, store, validUntil, pubVars, logged>>

\* The dispatch context is free for its next message.
HandlerDone(h) ==
    /\ hnd[h].pc = "done"
    /\ ~exited
    /\ hnd' = [hnd EXCEPT ![h] = HIdle]
    /\ UNCHANGED <<lifeVars, now, store, validUntil, cacheLock, pubVars, logged>>

\* Time passes.
Tick ==
    /\ now < MaxTime
    /\ ~exited
    /\ now' = now + 1
    /\ UNCHANGED <<lifeVars, store, validUntil, cacheLock, hnd, pubVars, logged>>

LifeNext ==
    \/ Start
    \/ \E p \in Procs : ConnectSkip(p)
    \/ \E p \in Procs : ConnectOk(p)
    \/ \E p \in Procs : ConnectFail(p)
    \/ \E p \in Procs : SubscribeAccount(p)
    \/ \E p \in Procs : SubscribeActivation(p)
    \/ \E p \in Procs : StoreConn(p)
    \/ \E p \in Procs : Unlock(p)
    \/ \E t \in Goroutines : TimerFire(t)
    \/ \E g \in Goroutines : RetryEval(g)
    \/ \E g \in Goroutines : RetryRecv(g)
    \/ \E g \in Goroutines : RetryClear(g)
    \/ \E g \in Goroutines : RetryCheck(g)
    \/ \E g \in Goroutines : RetryLock(g)
    \/ Stop
    \/ \E c \in ClosedCtx : natsClosed(c)
    \/ \E c \in ClosedCtx : TaskStop(c)
    \/ \E c \in ClosedCtx : TaskExit(c)

PubNext ==
    \/ getNatsConnection
    \/ \E k \in AccountKeys : sendAccountNotification(k, "A1")
    \/ sendActivationNotification("H1", "K1", "V1")
    \/ PublishOk
    \/ PublishErr
    \/ PubDone

HandlerNext ==
    \/ \E h \in Handlers, m \in ForeignMsgs \cup {wire} : handleAccountNotification(h, m)
    \/ \E h \in Handlers, m \in ForeignMsgs \cup {wire} : handleActivationNotification(h, m)
    \/ \E h \in Handlers : SaveOk(h)
    \/ \E h \in Handlers : SaveFail(h)
    \/ \E h \in Handlers : CacheLock(h)
    \/ \E h \in Handlers : Touch(h)
    \/ \E h \in Handlers : CacheUnlock(h)
    \/ \E h \in Handlers : HandlerDone(h)
    \/ Tick

\* The connection lifecycle and the publishers. The handlers read no variable of
\* the lifecycle but the subscriptions, and write none: they run under NotifySpec.
Next == LifeNext \/ PubNext

Spec == Init /\ [][Next]_vars

\* The handlers and the publishers, on a server whose connection attempt succeeds.
NotifyLife ==
    \/ Start
    \/ ConnectSkip(Main)
    \/ ConnectOk(Main)
    \/ SubscribeAccount(Main)
    \/ SubscribeActivation(Main)
    \/ StoreConn(Main)
    \/ Unlock(Main)
    \/ Stop

NotifyPub ==
    \/ \E k \in AccountKeys : sendAccountNotification(k, "A1")
    \/ sendActivationNotification("H1", "K1", "V1")
    \/ PublishOk
    \/ PublishErr
    \/ PubDone

NotifyNext == NotifyLife \/ NotifyPub \/ HandlerNext

\* The retry timer plays no part here: one value of its duration is enough.
NotifyInit == Init /\ reconnectWait = 1000

NotifySpec == NotifyInit /\ [][NotifyNext]_vars

\* Messages of other servers handed to the handlers of ServerSpec: a valid account
\* update, a valid activation and one that does not decode.
InboundMsgs ==
    {[subject |-> Sprintf(accountNotificationFormat, <<"K1">>), data |-> "A1b"],
     [subject |-> Sprintf(activationNotificationFormat, <<"K1", "H1">>), data |-> "V1"],
     [subject |-> Sprintf(activationNotificationFormat, <<"K1", "H1">>), data |-> "bad"]}

CallbackNext ==
    \/ natsError
    \/ natsDisconnected
    \/ natsReconnected
    \/ natsDiscoveredServers

ServerHandlerNext ==
    \/ \E h \in Handlers, m \in InboundMsgs : handleAccountNotification(h, m)
    \/ \E h \in Handlers, m \in InboundMsgs : handleActivationNotification(h, m)
    \/ \E h \in Handlers : SaveOk(h)
    \/ \E h \in Handlers : SaveFail(h)
    \/ \E h \in Handlers : CacheLock(h)
    \/ \E h \in Handlers : Touch(h)
    \/ \E h \in Handlers : CacheUnlock(h)
    \/ \E h \in Handlers : HandlerDone(h)

ServerNext == LifeNext \/ CallbackNext \/ getNatsConnection \/ PubDone \/ ServerHandlerNext

\* Every context that takes a lock or is called by the NATS client: the lifecycle with
\* its retry goroutines, Stop() and the closed callback, the logging callbacks,
\* getNatsConnection and the handlers.
ServerSpec == NotifyInit /\ [][ServerNext]_vars

\* Fair scheduling: every goroutine that can take a step eventually takes it, a call
\* of nats.Connect returns, a timer that was set expires, and sync.Mutex hands the
\* lock to a goroutine that keeps asking for it.
Fairness ==
    /\ SF_vars(Start)
    /\ \A p \in Procs :
        /\ WF_vars(ConnectSkip(p) \/ ConnectOk(p) \/ ConnectFail(p))
        /\ WF_vars(SubscribeAccount(p))
        /\ WF_vars(SubscribeActivation(p))
        /\ WF_vars(StoreConn(p))
        /\ WF_vars(Unlock(p))
    /\ \A g \in Goroutines :
        /\ WF_vars(TimerFire(g))
        /\ WF_vars(RetryEval(g))
        /\ WF_vars(RetryRecv(g))
        /\ WF_vars(RetryClear(g))
        /\ SF_vars(RetryCheck(g))
        /\ SF_vars(RetryLock(g))
    /\ \A c \in ClosedCtx :
        /\ SF_vars(TaskStop(c))
        /\ WF_vars(TaskExit(c))

\* The connection lifecycle alone, fairly scheduled. The publishers hold the lock for
\* one read only and change nothing the lifecycle reads.
LiveSpec == Init /\ [][LifeNext]_vars /\ Fairness

\* ---------------------------------------------------------------- claims

\* C1: once Stop() has cleared running while a retry goroutine was waiting for its
\* timer (or was between its running check and the lock), no step makes a further
\* connection attempt, creates a timer, sets server.natsTimer to a timer or stores
\* a connection handle.
C1_NoReconnectAfterStop ==
    [][stopPending =>
        /\ attempts' = attempts
        /\ failures' = failures
        /\ nats' = nats
        /\ natsTimer' \in {natsTimer, Nil}
        /\ \A t \in Goroutines : timer[t].state = "none" => timer'[t].state = "none"
        /\ connState' = connState]_vars

\* A retry goroutine passed its timer and called connectToNATS after Stop(): the call
\* returned without an attempt.
C1_Witness ==
    \E g \in Goroutines :
        /\ stopPending
        /\ pc[g] = "done"
        /\ ret[g] = "nil"
        /\ failures = g
        /\ attempts = g
        /\ nats = Nil

\* C2: at most one stop-and-exit goroutine is ever started by the closed callbacks,
\* and os.Exit is executed at most once.
C2_OneStopAndExit ==
    /\ Cardinality({c \in ClosedCtx : taskpc[c] # "none"}) <= 1
    /\ Cardinality({c \in ClosedCtx : taskpc[c] = "exited"}) <= 1

\* C3: every read and write of server.nats is made with the server lock held.
C3_HandleAccessLocked == ~unsync

\* C4: with no server address configured, connectToNATS returns nil, nats.Connect is
\* never called, server.nats stays nil and no retry timer exists.
C4_NotConfiguredNoop ==
    servers = 0 =>
        /\ attempts = 0
        /\ connState = "none"
        /\ nats = Nil
        /\ natsTimer = Nil
        /\ \A t \in Goroutines : timer[t].state = "none" /\ pc[t] = "none"
        /\ \A p \in Procs : ret[p] \in {"none", "nil"}
        /\ pc[Main] = "done" => ret[Main] = "nil"

C4_Witness == servers = 0 /\ running /\ pc[Main] = "done" /\ ret[Main] = "nil"

\* C5: a failed attempt returns nil to its caller in the same step (the timer it set is
\* still pending), leaves server.nats alone, creates exactly one timer, of duration
\* reconnectWait, and one goroutine waiting for it; that goroutine, once the timer has
\* fired and the server is still running, calls connectToNATS holding the lock.
C5_FailedStep(p) ==
    /\ ret'[p] = "nil"
    /\ pc'[p] = "Unlock"
    /\ nats' = nats
    /\ now' = now
    /\ natsTimer' # Nil
    /\ Cardinality({t \in Goroutines : timer'[t] # timer[t]}) = 1
    /\ timer[natsTimer'].state = "none"
    /\ timer'[natsTimer'] = [state |-> "pending", dur |-> reconnectWait]
    /\ {g \in Goroutines : pc[g] = "none" /\ pc'[g] # "none"} = {natsTimer'}
    /\ pc'[natsTimer'] = "spawned"

C5_RetryStep(g) ==
    /\ pc[g] = "recv" /\ pc'[g] # "recv" => timer[gTimer[g]].state = "fired"
    /\ pc[g] = "check" /\ pc'[g] # "check" => pc'[g] = (IF running THEN "Lock" ELSE "done")
    /\ pc'[g] \in {"connect", "sub1", "sub2", "store", "Unlock"} => lock' = g

C5_FailureSchedulesRetry ==
    [][/\ \A p \in Procs : pc[p] = "connect" /\ failures' # failures => C5_FailedStep(p)
       /\ \A g \in Goroutines : C5_RetryStep(g)]_vars

\* The second attempt: a goroutine whose timer fired is in connectToNATS with the lock.
C5_Witness ==
    \E g \in Goroutines :
        /\ pc[g] = "connect"
        /\ lock = g
        /\ timer[g].state = "received"
        /\ timer[g].dur = reconnectWait
        /\ ret[Main] = "nil"

\* C6: with an address configured and the server never stopped, a connection handle
\* is eventually stored, however many of the attempts fail first.
C6_EventuallyConnected ==
    (servers > 0 /\ []~stopped) => <>(nats # Nil)

\* The handle was stored by a retry goroutine, after every allowed failure.
C6_Witness ==
    /\ nats # Nil
    /\ failures = MaxFailures
    /\ attempts = MaxFailures + 1
    /\ pc[MaxFailures] = "done"

\* C7: a closed callback that finds the server running returns at once and starts a
\* goroutine; Stop() is then eventually executed and the process eventually exits with
\* a non-zero status, never before Stop().
C7_ClosedStopsThenExits ==
    /\ \A c \in ClosedCtx : [](taskpc[c] \in {"Stop", "Exit"} => <>exited)
    /\ [](\A c \in ClosedCtx : taskpc[c] # "none" => closedpc[c] = "returned")
    /\ [](\A c \in ClosedCtx : taskpc[c] \in {"Exit", "exited"} => stopped /\ ~running)
    /\ [](exited => stopped /\ ~running /\ exitStatus # 0)

C7_Witness ==
    \E c \in ClosedCtx :
        /\ taskpc[c] = "exited"
        /\ closedpc[c] = "returned"
        /\ exited /\ stopped /\ ~running
        /\ exitStatus = 255

\* C8: a handler handed a message that does not decode, or decodes to no claim, goes
\* straight to its return and changes neither the claim store nor the expiry map, takes
\* no lock and leaves the subscriptions and the connection as they are.
Undecodable(kind, data) ==
    IF kind = "account"
    THEN DecodeAccountClaims(data).err \/ ~DecodeAccountClaims(data).claim
    ELSE DecodeActivationClaims(data).err \/ ~DecodeActivationClaims(data).claim

C8_Untouched ==
    /\ store' = store
    /\ validUntil' = validUntil
    /\ cacheLock' = cacheLock
    /\ subs' = subs
    /\ connState' = connState

C8_DecodeFailureDrops ==
    [][\A h \in Handlers :
        /\ (hnd[h].pc = "idle" /\ hnd'[h].pc # "idle"
                /\ Undecodable(hnd'[h].kind, hnd'[h].data))
            => hnd'[h].pc = "done" /\ hnd'[h].result = "dropped" /\ C8_Untouched
        /\ (hnd[h].result = "dropped" /\ hnd'[h] # hnd[h])
            => hnd'[h] = HIdle /\ C8_Untouched]_vars

\* One handler dropped a message that does not decode and the other one handled a
\* valid message, on the same subscriptions.
C8_Witness ==
    \E h1, h2 \in Handlers :
        /\ hnd[h1].result = "dropped"
        /\ Undecodable(hnd[h1].kind, hnd[h1].data)
        /\ hnd[h2].result = "ok"
        /\ subs = {"account", "activation"}
        /\ connState = "open"

\* C9: the expiry of an identifier never decreases. A delivery of a valid account
\* update saves its payload under the claim's subject (changing nothing when that
\* payload is already there) and leaves as the expiry the later of the one it found and
\* the one it computed; so when two dispatch contexts have handled the same update, the
\* expiry is at least the later of their two and the store holds a payload.
Later(a, b) == IF a >= b THEN a ELSE b

C9_SameTwice(h1, h2) ==
    /\ h1 # h2
    /\ hnd[h1].kind = "account" /\ hnd[h2].kind = "account"
    /\ hnd[h1].result = "ok" /\ hnd[h2].result = "ok"
    /\ hnd[h1].data = hnd[h2].data

C9_Delivery(h) ==
    /\ (hnd[h].pc = "save" /\ hnd'[h].pc = "lock")
        => /\ store'["K1"] = hnd[h].data
           /\ store["K1"] = hnd[h].data => store' = store
    /\ (hnd[h].pc = "touch" /\ hnd'[h].pc = "unlock")
        => validUntil'["K1"] = Later(validUntil["K1"], now + 3600000)

C9_IdempotentDelivery ==
    /\ [][\A k \in Keys : validUntil'[k] >= validUntil[k]]_vars
    /\ [][\A h \in Handlers : hnd[h].kind = "account" => C9_Delivery(h)]_vars
    /\ [](\A h1, h2 \in Handlers :
            C9_SameTwice(h1, h2) =>
                /\ store["K1"] # "none"
                /\ validUntil["K1"] >= Later(hnd[h1].at, hnd[h2].at) + 3600000)

\* The same update handled twice, at two different times.
C9_Witness ==
    \E h1, h2 \in Handlers :
        /\ C9_SameTwice(h1, h2)
        /\ hnd[h1].at < hnd[h2].at
        /\ store["K1"] = hnd[h2].data
        /\ validUntil["K1"] = hnd[h2].at + 3600000

\* C10: a successful sendAccountNotification leaves on the wire the payload under the
\* subject $SYS.ACCOUNT.<K>.CLAIMS.UPDATE, which matches the subscribed pattern
\* $SYS.ACCOUNT.*.CLAIMS.UPDATE; the account handler saves the payload it is handed
\* under the subject of the claim and sets that identifier's expiry to the time of
\* handling plus one hour.
C10_Published ==
    (pub.pc = "returned" /\ pub.op = "account" /\ pub.result = "nil") =>
        /\ wire = [subject |-> <<"$SYS", "ACCOUNT", pub.claimKey, "CLAIMS", "UPDATE">>,
                   data |-> pub.msg.data]
        /\ SubscribeSubject("account") = <<"$SYS", "ACCOUNT", "*", "CLAIMS", "UPDATE">>
        /\ SubjectMatches(wire.subject, SubscribeSubject("account"))

C10_Handled(h) ==
    /\ (hnd[h].pc = "save" /\ hnd'[h].pc = "lock")
        => store' = [store EXCEPT !["K1"] = hnd[h].data]
    /\ (hnd[h].pc = "touch" /\ hnd'[h].pc = "unlock")
        => validUntil' = [validUntil EXCEPT !["K1"] = now + 3600000]

C10_RoundTrip ==
    /\ []C10_Published
    /\ [][\A h \in Handlers : hnd[h].kind = "account" => C10_Handled(h)]_vars

\* The claim A1 of subject K1, published on K1's subject, came back and was handled.
C10_Witness ==
    \E h \in Handlers :
        /\ wire = [subject |-> <<"$SYS", "ACCOUNT", "K1", "CLAIMS", "UPDATE">>, data |-> "A1"]
        /\ hnd[h].kind = "account" /\ hnd[h].data = "A1" /\ hnd[h].pc = "unlock"
        /\ store["K1"] = "A1"
        /\ validUntil["K1"] = now + 3600000

\* C11: a call of sendAccountNotification or sendActivationNotification made while
\* server.nats is nil returns nil in that step, without a publish attempt, and changes
\* nothing: the wire, server.nats, the retry timer, the claim store and the expiry map
\* are as before, and so is the rest of the server's state; the caller's return
\* changes nothing either.
PublisherCalled == pub.pc = "idle" /\ pub'.op \in {"account", "activation"}

C11_Skipped == pub.pc = "returned" /\ pub.op \in {"account", "activation"} /\ pub.result = "none"

C11_NothingChanged ==
    /\ wire' = wire
    /\ nats' = nats
    /\ natsTimer' = natsTimer
    /\ timer' = timer
    /\ store' = store
    /\ validUntil' = validUntil
    /\ lifeVars' = lifeVars

C11_NoHandleNoPublish ==
    /\ [][(PublisherCalled /\ nats = Nil) =>
            /\ pub'.pc = "returned"
            /\ pub'.ret = "nil"
            /\ pub'.result = "none"
            /\ pub'.attempts = 0
            /\ C11_NothingChanged]_vars
    /\ [][(C11_Skipped /\ pub' # pub) => pub' = PubIdle /\ C11_NothingChanged]_vars
    /\ [](C11_Skipped => pub.ret = "nil" /\ pub.attempts = 0)

\* The activation publisher returned nil without publishing, on a running server whose
\* connection attempt failed and whose retry is pending.
C11_Witness ==
    /\ C11_Skipped
    /\ pub.op = "activation"
    /\ pub.ret = "nil"
    /\ nats = Nil
    /\ running /\ servers > 0
    /\ natsTimer # Nil
    /\ wire = NoMsg

\* C12: with server.nats set, a call of sendAccountNotification or
\* sendActivationNotification goes on to Publish, makes one publish attempt and
\* returns its result as it is, nil or the error; the step that fails leaves the
\* wire, server.nats, the retry timer, the timers, the goroutines and the count of
\* connection attempts as they were, and the call is over after it: no second attempt.
C12_OnePublish ==
    /\ [][(PublisherCalled /\ nats # Nil) =>
            /\ pub'.pc = "publish" /\ pub'.attempts = 0
            /\ lifeVars' = lifeVars /\ wire' = wire]_vars
    /\ [][(pub.pc = "publish" /\ pub' # pub) =>
            /\ pub'.pc = "returned"
            /\ pub'.attempts = 1
            /\ pub'.result \in {"nil", "err"}
            /\ pub'.ret = pub'.result
            /\ pub'.result = "err" => wire' = wire
            /\ lifeVars' = lifeVars]_vars
    /\ [][(pub.pc = "returned" /\ pub.result # "none" /\ pub' # pub) =>
            pub' = PubIdle /\ lifeVars' = lifeVars /\ wire' = wire]_vars
    /\ [](pub.pc = "returned" /\ pub.result # "none" =>
            pub.attempts = 1 /\ pub.ret = pub.result)

\* A publish on the stored connection failed and the error came back to the caller; the
\* handle is still stored and no retry was scheduled.
C12_Witness ==
    /\ pub.pc = "returned"
    /\ pub.op = "account"
    /\ pub.result = "err" /\ pub.ret = "err"
    /\ pub.attempts = 1
    /\ nats # Nil
    /\ natsTimer = Nil
    /\ attempts = 1

\* C13: once a connection attempt has succeeded and the handle is stored, the account
\* and the activation subscriptions are both registered when the server is primary
\* and none is when it is not; a subscription exists only on a primary server with a
\* connection; and on a server that is not primary no handler ever runs, so the claim
\* store and the expiry map stay as they were constructed.
C13_SubscribedIffPrimary ==
    /\ nats # Nil => subs = (IF primary THEN {"account", "activation"} ELSE {})
    /\ subs # {} => primary /\ connState # "none"
    /\ ~primary =>
        /\ store = [k \in Keys |-> "none"]
        /\ validUntil = [k \in Keys |-> NoExpiry]
        /\ \A h \in Handlers : hnd[h] = HIdle

\* A retry goroutine connected a primary server after a failed attempt, registered
\* both subscriptions, and a handler has saved an inbound payload since.
C13_Witness ==
    /\ primary
    /\ nats # Nil
    /\ failures > 0
    /\ subs = {"account", "activation"}
    /\ store["K1"] # "none"
    /\ validUntil["K1"] # NoExpiry

\* C14, as stated: whenever server.natsTimer is non-nil, a retry goroutine is waiting
\* on that timer (it has not yet received from the timer's channel).
C14_TimerOnlyWhileWaiting ==
    natsTimer # Nil =>
        /\ pc[natsTimer] \in {"spawned", "recv"}
        /\ timer[natsTimer].state \in {"pending", "fired"}

\* The goroutines of a retry that is waiting for its timer or reconnecting.
RetryWaiting == {g \in Goroutines : pc[g] \in {"spawned", "recv"}}
RetryReconnecting ==
    {g \in Goroutines : pc[g] \in {"clear", "check", "Lock", "connect", "sub1", "sub2", "store"}}

\* C14, amended: whenever server.natsTimer is non-nil, the goroutine of that timer is
\* waiting on it, or has just received from it and its next statement clears the
\* handle; a goroutine that waits, waits on the timer server.natsTimer holds; and at
\* most one retry goroutine is waiting or reconnecting, whatever failed, fired or was
\* stopped before.
C14_TimerWhilePending ==
    /\ natsTimer # Nil =>
        /\ pc[natsTimer] \in {"spawned", "recv", "clear"}
        /\ pc[natsTimer] \in {"spawned", "recv"} => timer[natsTimer].state \in {"pending", "fired"}
        /\ pc[natsTimer] = "clear" => timer[natsTimer].state = "received"
    /\ \A g \in RetryWaiting : natsTimer = g /\ (pc[g] = "recv" => gTimer[g] = g)
    /\ Cardinality(RetryWaiting \cup RetryReconnecting) <= 1

\* After two failed connects and a Stop(), the second retry goroutine still waits on
\* the timer held by server.natsTimer, which has fired; the first one is gone.
C14_Witness ==
    /\ failures = 2
    /\ stopped
    /\ natsTimer = 2
    /\ pc[2] = "recv"
    /\ timer[2].state = "fired"
    /\ pc[1] = "done"

\* C15: connectToNATS opens at most one connection (the calls of nats.Connect that
\* succeeded are at most one), so at most one is live; the attempt that succeeds is
\* made with no handle stored, no connection made, no retry timer set and no retry
\* goroutine waiting or about to reconnect; and server.nats is assigned only when it
\* is nil.
C15_Succeeds == attempts' = attempts + 1 /\ failures' = failures

C15_OneConnection ==
    /\ [](attempts - failures <= 1)
    /\ [](connState # "none" <=> attempts - failures = 1)
    /\ [][C15_Succeeds =>
            /\ nats = Nil
            /\ connState = "none"
            /\ natsTimer = Nil
            /\ ~RetryPending
            /\ RetryWaiting = {}]_vars
    /\ [][nats' # nats => nats = Nil /\ connState = "open"]_vars

\* The one connection was opened by the retry goroutine of a failed attempt and is
\* live; getNatsConnection returned its handle.
C15_Witness ==
    /\ attempts = 2 /\ failures = 1
    /\ nats # Nil
    /\ connState = "open"
    /\ pc[1] = "done"
    /\ pub.op = "get" /\ pub.conn = nats

\* C16: the server lock is held only by a caller of connectToNATS (Start or a retry
\* goroutine) and the cache lock only by a handler between its Lock and its Unlock,
\* never during its store write; a step that takes or releases one lock leaves the
\* other alone, and a step of a handler leaves the server lock alone; and the holder
\* of either lock can always take its next step, whoever holds the other one, so the
\* two locks cannot deadlock.
C16_HolderProceeds ==
    /\ (lock # NoOne /\ ~exited) =>
            ENABLED (\/ ConnectSkip(lock) \/ ConnectOk(lock) \/ SubscribeAccount(lock)
                     \/ SubscribeActivation(lock) \/ StoreConn(lock) \/ Unlock(lock))
    /\ (cacheLock # NoOne /\ ~exited) =>
            ENABLED (Touch(cacheLock) \/ CacheUnlock(cacheLock))

C16_LocksNeverNested ==
    /\ [](lock \in Procs \cup {NoOne})
    /\ [](cacheLock \in Handlers \cup {NoOne})
    /\ [](lock # NoOne => pc[lock] \in {"connect", "sub1", "sub2", "store", "Unlock"})
    /\ [](cacheLock # NoOne => hnd[cacheLock].pc \in {"touch", "unlock"})
    /\ [](\A h \in Handlers : hnd[h].pc \in {"save", "lock"} => cacheLock # h)
    /\ [][lock' # lock => cacheLock' = cacheLock /\ hnd' = hnd]_vars
    /\ [][cacheLock' # cacheLock => lock' = lock /\ pc' = pc /\ pub' = pub]_vars
    /\ [][hnd' # hnd => lock' = lock]_vars
    /\ [](C16_HolderProceeds)

\* A retry goroutine holds the server lock at the end of connectToNATS while one
\* handler holds the cache lock and another one waits for it.
C16_Witness ==
    \E g \in Goroutines, h1, h2 \in Handlers :
        /\ lock = g
        /\ pc[g] = "Unlock"
        /\ cacheLock = h1
        /\ hnd[h1].pc = "touch"
        /\ hnd[h2].pc = "lock"

\* C17: the step in which a handler's store write fails, and the one in which the
\* activation handler cannot compute the hash, take the handler to its return with the
\* claim store, the expiry map and the cache lock as they were; the handler then
\* returns, without a second write. A handler reaches the cache lock only from a store
\* write that succeeded for its identifier, and the expiry of an identifier changes
\* only in the step of such a handler, for the identifier it saved.
C17_Failed(h) ==
    \/ hnd[h].pc = "save" /\ hnd'[h].result = "savefail"
    \/ /\ hnd[h].pc = "idle" /\ hnd'[h].kind = "activation"
       /\ DecodeActivationClaims(hnd'[h].data).hashErr

C17_CacheAsBefore ==
    /\ validUntil' = validUntil
    /\ store' = store
    /\ cacheLock' = cacheLock
    /\ exited' = exited

C17_FailedWriteLeavesCache ==
    /\ [][\A h \in Handlers :
            /\ C17_Failed(h) => hnd'[h].pc = "done" /\ C17_CacheAsBefore
            /\ (hnd[h].result = "savefail" /\ hnd'[h] # hnd[h]) =>
                    hnd'[h] = HIdle /\ C17_CacheAsBefore
            /\ (hnd'[h].pc = "lock" /\ hnd[h].pc # "lock") =>
                    hnd[h].pc = "save" /\ store'[hnd[h].key] = hnd[h].data
            /\ (hnd'[h].pc = "touch" /\ hnd[h].pc # "touch") => hnd[h].pc = "lock"]_vars
    /\ [][\A k \in Keys : validUntil'[k] # validUntil[k] =>
            \E h \in Handlers :
                /\ hnd[h].pc = "touch" /\ hnd'[h].pc = "unlock"
                /\ hnd[h].key = k
                /\ hnd[h].result = "none"
                /\ store[k] # "none"]_vars

\* A store write failed for an identifier never saved before, and an activation whose
\* hash cannot be computed was dropped: neither identifier has an expiry.
C17_Witness ==
    \E h1, h2 \in Handlers :
        /\ hnd[h1].pc = "done" /\ hnd[h1].result = "savefail"
        /\ store[hnd[h1].key] = "none"
        /\ validUntil[hnd[h1].key] = NoExpiry
        /\ hnd[h2].data = "VE" /\ hnd[h2].result = "dropped"
        /\ validUntil["H1"] = NoExpiry

\* C18: a step in which natsError, natsDisconnected, natsReconnected or
\* natsDiscoveredServers writes its log line changes nothing else: running,
\* server.nats, the retry timer and the timers, the goroutines, the connection
\* attempts, the stop-and-exit goroutines, the claim store and the expiry map are as
\* before, whatever the order of the callbacks and whatever else is going on.
C18_CallbacksOnlyLog ==
    [][logged' # logged =>
        /\ running' = running
        /\ nats' = nats
        /\ natsTimer' = natsTimer
        /\ timer' = timer
        /\ store' = store
        /\ validUntil' = validUntil
        /\ taskpc' = taskpc /\ stopped' = stopped /\ exited' = exited
        /\ attempts' = attempts /\ pc' = pc
        /\ lifeVars' = lifeVars
        /\ handlerVars' = handlerVars
        /\ pubVars' = pubVars]_vars

\* The disconnected callback was the last one to log, on a connected server that has
\* handled a notification: the server is still running, with its handle, and no
\* stop-and-exit goroutine was started.
C18_Witness ==
    /\ logged = "nats disconnected"
    /\ running /\ ~stopped /\ ~exited
    /\ nats # Nil
    /\ connState = "open"
    /\ store["K1"] # "none" /\ validUntil["K1"] # NoExpiry
    /\ \A c \in ClosedCtx : taskpc[c] = "none"

\* C19: on a primary server, the step that assigns server.nats finds both
\* subscriptions registered and registers none itself; so whenever server.nats is
\* non-nil there, and whenever getNatsConnection has returned a handle or a publisher
\* has passed its nil check, the account and the activation subscriptions are both
\* registered.
C19_Both == subs = {"account", "activation"}

C19_SubscribedBeforeStored ==
    /\ [][(primary /\ nats' # nats) => C19_Both /\ subs' = subs]_vars
    /\ []((primary /\ nats # Nil) => C19_Both)
    /\ []((primary /\ pub.op = "get" /\ pub.conn # Nil) => C19_Both)
    /\ []((primary /\ pub.pc = "publish") => C19_Both)
    /\ []((primary /\ pub.attempts > 0) => C19_Both)

\* getNatsConnection returned the handle of a primary server right after a retry
\* goroutine stored it and released the lock.
C19_Witness ==
    \E g \in Goroutines :
        /\ primary
        /\ pc[g] = "done" /\ ret[g] = "nil"
        /\ attempts = g + 1
        /\ pub.op = "get" /\ pub.conn # Nil
        /\ C19_Both

\* C20: an identifier that has an expiry has a payload in the claim store; a step
\* changes the expiry of at most one identifier, the one of the handler that takes
\* the step, and changes no expiry when the handler dropped its message or its store
\* write failed; an expiry once set is never removed, and neither is a saved payload.
C20_Own(h, k) == hnd[h].pc = "touch" /\ hnd'[h].pc # "touch" /\ hnd[h].key = k

C20_CacheEntriesBacked ==
    /\ [](\A k \in Keys : validUntil[k] # NoExpiry => store[k] # "none")
    /\ [][Cardinality({k \in Keys : validUntil'[k] # validUntil[k]}) <= 1]_vars
    /\ [][\A k \in Keys : validUntil'[k] # validUntil[k] =>
            \E h \in Handlers : C20_Own(h, k)]_vars
    /\ [][\A k \in Keys :
            /\ validUntil[k] # NoExpiry => validUntil'[k] # NoExpiry
            /\ store[k] # "none" => store'[k] # "none"]_vars
    /\ [](\A k \in Keys : store[k] # "none" =>
            \/ k = "K1" /\ DecodeAccountClaims(store[k]).subject = k
            \/ k = "H1" /\ DecodeActivationClaims(store[k]).hash = k)

\* Both identifiers have an expiry and a saved payload, after deliveries of both kinds
\* of which one was dropped and one failed to save.
C20_Witness ==
    \E h1, h2 \in Handlers :
        /\ validUntil["K1"] # NoExpiry /\ store["K1"] # "none"
        /\ validUntil["H1"] # NoExpiry /\ store["H1"] = "V1"
        /\ hnd[h1].result = "dropped"
        /\ hnd[h2].result = "savefail"

====
